---- MODULE Spec2Model ----
(***************************************************************************)
(* Relay: the safety-gated action orchestration core.                      *)
(*                                                                         *)
(* Two state machines share this module.                                   *)
(*   Spec      the renderer session (RelayApp): user events, reasoning-    *)
(*             backend calls, command dispatches and the agentic loop.     *)
(*   SpecShort the same session with fewer user events.                    *)
(*   SpecExec  the main process (CommandExecutor, SolutionEngine): the     *)
(*             entry points reachable over IPC and the command lines they  *)
(*             hand to exec.                                               *)
(*   SpecLog   CommandExecutor.logCommand applied many times in a row.     *)
(*   SpecConc  invocations of runCustomCommand that overlap: each is       *)
(*             suspended while exec runs and logs when exec has finished.  *)
(* JavaScript runs one handler at a time; a handler is suspended only at   *)
(* an await on an IPC call.  An action below is therefore the code that    *)
(* runs from one resumption to the next suspension.                        *)
(***************************************************************************)
EXTENDS Integers, Sequences, FiniteSets, TLC

\* ---------------------------------------------------------------- bounds
\* messages sent and action buttons clicked in one run of the session
MaxUserEvents == 3
\* the same, in the shorter runs of SpecShort
MaxShortEvents == 2
\* action tags in one reasoning-backend response
MaxActions == 2

\* invocations of main-process entry points in one run
MaxCalls == 2
\* appends to the history in one run of SpecLog
MaxAppends == 150
\* pieces of one response text in SpecParse
MaxPieces == 3
\* SpecPayload: the longest text a command prints or an error message has,
\* and the most crash reports a deep scan returns
MaxResultLength == 2001
MaxCrashes == 3
\* SpecLive: processes spawned in one run
MaxSpawns == 3
\* SpecChat: calls of AIEngine.chat in one run
MaxChats == 2
\* SpecConc: invocations that returned before the run starts, invocations
\* started in the run, and invocations suspended at the same time
EarlierCalls == 98
MaxOverlapCalls == 4
MaxInFlight == 3

\* ------------------------------------------------------ program constants
MAX_AGENTIC_STEPS == 10
\* entries CommandExecutor.history keeps
HistoryLimit == 100

VARIABLES
    \* renderer session (RelayApp)
    isProcessing,     \* this.isProcessing
    tasks,            \* the suspended async activations, by slot
    buttons,          \* action types offered as buttons in the chat
    modal,            \* the confirmation modal: overlay active, action bound to Confirm
    eventsLeft,       \* messages and clicks the user may still make in this run
    terminatedWith,   \* dispatch counts of the chains that emitted the fixed summary
    dropped,          \* a command result was discarded by the re-entrancy guard
    \* main process (CommandExecutor, SolutionEngine)
    platform,         \* os.platform()
    history,          \* CommandExecutor.history
    auditLog,         \* SolutionEngine.auditLog
    lastCall,         \* the last invocation: entry point, argument, verdict, spawns, result
    calls,            \* number of entry-point invocations so far
    inflight,         \* invocations suspended at their await of exec (SpecConc)
    \* the specifications of single functions
    response,         \* SpecParse: the pieces of the backend's response text
    parsed,           \* SpecParse: what parseAIResponse returned for it
    payload,          \* SpecPayload: the last [SYSTEM_RESULT: ...] message built
    \* the reasoning engine (AIEngine)
    aiEngine,         \* geminiClient, ollamaAvailable, useLocal, preferredProvider,
                      \* conversationHistory
    chats             \* SpecChat: the calls of AIEngine.chat, by serial number

rendererVars == <<isProcessing, tasks, buttons, modal, eventsLeft, terminatedWith, dropped>>
execVars == <<platform, history, auditLog, lastCall, calls, inflight>>
engineVars == <<aiEngine, chats>>
auxVars == <<response, parsed, payload, aiEngine, chats>>
vars == <<isProcessing, tasks, buttons, modal, eventsLeft, terminatedWith, dropped,
          platform, history, auditLog, lastCall, calls, inflight,
          response, parsed, payload, aiEngine, chats>>

\* ------------------------------------------------- actions of a response
\* An action parsed from a response: its type and, for query-system, its
\* queryType ("" when the tag carries none).
QuerySystem == [type |-> "query-system", queryType |-> "top-processes"]
QueryNoArg == [type |-> "query-system", queryType |-> ""]
DeepScan == [type |-> "run-deep-scan", queryType |-> ""]
RestartApp == [type |-> "restart-app", queryType |-> ""]
GeneratePassword == [type |-> "generate-password", queryType |-> ""]

ActionUniverse ==
    {QuerySystem, QueryNoArg, DeepScan, RestartApp, GeneratePassword}

ActionTypes == {a.type : a \in ActionUniverse}

\* The action lists a response text can parse to.  The code reads a list only
\* through filter(), which keeps the order of the tags, so the lists are
\* enumerated up to the order of tags of different kinds: a deep-scan tag
\* comes before a query tag, button-only tags come last.
TagOrder == <<GeneratePassword, DeepScan, QuerySystem, QueryNoArg, RestartApp>>
TagRank(a) == CHOOSE i \in 1..Len(TagOrder) : TagOrder[i] = a
ActionSeqs ==
    {s \in UNION {[1..n -> ActionUniverse] : n \in 0..MaxActions} :
        \A i \in 1..Len(s), j \in 1..Len(s) : i < j => TagRank(s[i]) <= TagRank(s[j])}

\* response.actions: the buttons AIEngine.parseActions derives from keywords
EngineActions == {<<>>, <<RestartApp>>}

TypesOf(seq) == {seq[i].type : i \in 1..Len(seq)}

utilityActionTypes == {"generate-password", "generate-qrcode", "file-hash", "text-stats",
                       "format-json", "base64-encode", "base64-decode", "convert-case"}

autoExecTypes == {"query-system", "run-deep-scan"}

approvedActionTypes == {"kill-process", "clear-caches", "empty-trash", "flush-dns",
                        "open-app", "restart-app"}

IsUtility(a) == a.type \in utilityActionTypes
IsOther(a) == ~(a.type \in utilityActionTypes)
IsQuery(a) == a.type = "query-system" /\ a.queryType # ""
IsDeepScan(a) == a.type = "run-deep-scan"
IsUserAction(a) == ~(a.type \in autoExecTypes)

\* ------------------------------------------------------------------ tasks
Slots == 1..MaxUserEvents

\* pc: where the activation is suspended
\*   idle      no activation in the slot
\*   chat0     sendMessage, awaiting window.relay.chat
\*   util      sendMessage, awaiting executeUtilityAction
\*   cmd       executeQueryActionAgentic, awaiting window.relay.runSafeCommand
\*   scanA     executeDeepScan(step), awaiting window.relay.runDeepScan
\*   scan0     executeDeepScan(), awaiting window.relay.runDeepScan
\*   chat      processSystemMessage, awaiting window.relay.chat
\*   approved  executeApprovedAction, awaiting the dispatcher call
\*   solution  executeSolution, awaiting window.relay.executeSolution
\* origin: the handler at the bottom of the call stack (send, click)
\* step: the stepCount argument; rest: query actions left in sendMessage's loop;
\* utils: utility actions left in sendMessage's loop; pend: the buttons the
\* utility loop adds; act: the action of an approved or solution dispatch;
\* ndisp: commands dispatched by the chain; respDisp: commands dispatched for
\* the response to the top-level message; term: why the last chain stopped;
\* prev: why the chain before this one, run by the same sendMessage loop,
\* stopped; stale: a top-level message was sent while the activation was live.
IdleTask == [pc |-> "idle", origin |-> "none", step |-> 0, rest |-> 0, utils |-> 0,
             pend |-> {}, pendAll |-> {}, act |-> "none", ndisp |-> 0, respDisp |-> 0,
             term |-> "none", prev |-> "none", stale |-> FALSE]

FreeSlots == {t \in Slots : tasks[t].pc = "idle"}
FreeSlot == CHOOSE t \in FreeSlots : \A u \in FreeSlots : t <= u

ChatPcs == {"chat0", "chat"}
DispatchPcs == {"cmd", "scanA", "scan0", "approved", "solution"}

InitRenderer ==
    /\ isProcessing = FALSE
    /\ tasks = [t \in Slots |-> IdleTask]
    /\ buttons = {}
    /\ modal = [active |-> FALSE, action |-> "none"]
    /\ eventsLeft = MaxUserEvents
    /\ terminatedWith = {}
    /\ dropped = FALSE


\* ============================================ main process: command text
\* A command text is the sequence of its characters.
UpperCase == <<"A", "B", "C", "D", "E", "F", "G", "H", "I", "J", "K", "L", "M", "N", "O", "P", "Q", "R", "S", "T", "U", "V", "W", "X", "Y", "Z">>
LowerCase == <<"a", "b", "c", "d", "e", "f", "g", "h", "i", "j", "k", "l", "m", "n", "o", "p", "q", "r", "s", "t", "u", "v", "w", "x", "y", "z">>

\* the i flag: characters are compared after case folding
LowerOf == [k \in 1..26 |-> LowerCase[k]]
UpperIndex == [c \in {UpperCase[k] : k \in 1..26} |-> CHOOSE k \in 1..26 : UpperCase[k] = c]
ToLower(c) == IF c \in DOMAIN UpperIndex THEN LowerOf[UpperIndex[c]] ELSE c

\* the class \s
IsSpace(c) == c \in {" ", "\t", "\n"}

\* a pattern is a sequence of items: a literal character, \s+ or \s*
L(c) == [kind |-> "lit", ch |-> c, rep |-> "1"]
SpacePlus == [kind |-> "space", ch |-> " ", rep |-> "+"]
SpaceStar == [kind |-> "space", ch |-> " ", rep |-> "*"]

ItemMatches(item, c) ==
    IF item.kind = "space" THEN IsSpace(c) ELSE ToLower(c) = ToLower(item.ch)

\* the items p[k..] match a prefix of s[i..]
RECURSIVE MatchAt(_, _, _, _)
MatchAt(p, k, s, i) ==
    IF k > Len(p) THEN TRUE
    ELSE IF p[k].rep = "1"
    THEN i <= Len(s) /\ ItemMatches(p[k], s[i]) /\ MatchAt(p, k + 1, s, i + 1)
    ELSE \E n \in (IF p[k].rep = "+" THEN 1 ELSE 0)..(Len(s) - i + 1) :
            /\ \A j \in i..(i + n - 1) : ItemMatches(p[k], s[j])
            /\ MatchAt(p, k + 1, s, i + n)

\* RegExp.prototype.test without the g flag: a match anywhere in the text
RegexTest(p, s) == \E i \in 1..(Len(s) + 1) : MatchAt(p, 1, s, i)

\* CommandExecutor constructor, lines 20-33
dangerousPatterns == <<
    <<L("r"), L("m"), SpacePlus, L("-"), L("r"), L("f")>>,
    <<L("r"), L("m"), L("d"), L("i"), L("r")>>,
    <<L("d"), L("e"), L("l"), SpacePlus, L("/"), L("s")>>,
    <<L("f"), L("o"), L("r"), L("m"), L("a"), L("t")>>,
    <<L("m"), L("k"), L("f"), L("s")>>,
    <<L("d"), L("d"), SpacePlus, L("i"), L("f"), L("=")>>,
    <<L(">"), SpaceStar, L("/"), L("d"), L("e"), L("v"), L("/")>>,
    <<L("s"), L("u"), L("d"), L("o")>>,
    <<L("c"), L("h"), L("m"), L("o"), L("d"), SpacePlus, L("7"), L("7"), L("7")>>,
    <<L("k"), L("i"), L("l"), L("l"), L("a"), L("l"), L("l")>>,
    <<L("s"), L("h"), L("u"), L("t"), L("d"), L("o"), L("w"), L("n")>>,
    <<L("r"), L("e"), L("b"), L("o"), L("o"), L("t")>> >>

\* a test that looks at the first pattern only
isDangerousFirstOnly(command) == RegexTest(dangerousPatterns[1], command)

\* CommandExecutor.isDangerous, lines 132-134
isDangerous(command) ==
    \E k \in 1..Len(dangerousPatterns) : RegexTest(dangerousPatterns[k], command)

\* getSafeCommands, lines 39-120: two of the fifteen entries of the catalog
safeCommands ==
    [k \in {"disk-usage", "memory-info"} |->
        IF k = "disk-usage"
        THEN [darwin |-> <<"d", "f", " ", "-", "h">>,
              win32 |-> <<"w", "m", "i", "c", " ", "l", "o", "g", "i", "c", "a", "l", "d", "i", "s", "k", " ", "g", "e", "t", " ", "s", "i", "z", "e", ",", "f", "r", "e", "e", "s", "p", "a", "c", "e", ",", "c", "a", "p", "t", "i", "o", "n">>,
              linux |-> <<"d", "f", " ", "-", "h">>]
        ELSE [darwin |-> <<"v", "m", "_", "s", "t", "a", "t">>,
              win32 |-> <<"w", "m", "i", "c", " ", "m", "e", "m", "o", "r", "y", "c", "h", "i", "p", " ", "g", "e", "t", " ", "c", "a", "p", "a", "c", "i", "t", "y">>,
              linux |-> <<"f", "r", "e", "e", " ", "-", "h">>]]

\* CommandExecutor.isSafeCommand, lines 125-127
isSafeCommand(commandKey) == commandKey \in DOMAIN safeCommands

\* SolutionEngine.isSafe, lines 90-99
dangerousTypes == {"delete-system-file", "modify-registry", "format-drive", "disable-security"}

\* a check that remembers the approval carried by the request before
isSafeRemembered(solution) ==
    \/ ~(solution.type \in dangerousTypes)
    \/ (lastCall.op = "execute" /\ lastCall.arg.approved)

\* a check that an approved flag on the request overrides
isSafeUnlessApproved(solution) == solution.approved \/ ~(solution.type \in dangerousTypes)

isSafe(solution) == ~(solution.type \in dangerousTypes)

\* ------------------------------------------------ inputs of the entry points
\* raw command texts handed to runCustomCommand
SudoRm == <<"s", "u", "d", "o", " ", "r", "m", " ", "-", "r", "f", " ", "/">>
FormatC == <<"f", "o", "r", "m", "a", "t", " ", "C", ":">>
ShutdownNow == <<"s", "h", "u", "t", "d", "o", "w", "n", " ", "-", "r", " ", "n", "o", "w">>
UpperRm == <<"R", "M", " ", " ", "-", "R", "F", " ", "x">>
ToDev == <<"l", "s", " ", ">", "/", "d", "e", "v", "/", "s", "d", "a">>
CatInformation == <<"c", "a", "t", " ", "i", "n", "f", "o", "r", "m", "a", "t", "i", "o", "n", ".", "t", "x", "t">>
LsLa == <<"l", "s", " ", "-", "l", "a">>
RmFile == <<"r", "m", " ", "f", "i", "l", "e">>

CustomCommands == {SudoRm, FormatC, ShutdownNow, UpperRm, ToDev, CatInformation, LsLa, RmFile}

Pids == {<<"4", "2">>}

\* application and process names; the second carries a character the
\* sanitisation removes
Safari == <<"S", "a", "f", "a", "r", "i">>
QuotedReboot == <<"r", "e", "\"", "b", "o", "o", "t">>
\* a name of two lines
SafariNewline == <<"S", "a", "f", "a", "r", "i", "\n", "r", "e", "b", "o", "o", "t">>

\* a name that carries a shell command
ChromeRm == <<"C", "h", "r", "o", "m", "e", ";", "r", "m", " ", "-", "r", "f", " ", "~">>

\* the argument of a call that passes no name: not a string
Undefined == <<"undefined">>
AppNames == {Safari, QuotedReboot, SafariNewline, ChromeRm, Undefined}

CommandKeys == {"disk-usage", "memory-info", "wipe-disk"}

\* requests handed to SolutionEngine.execute; type "" is a request without type
SolutionTypes == {"delete-system-file", "modify-registry", "format-drive", "disable-security",
                  "kill-process", "flush-dns", "suggest-restart", "defragment", ""}
Solutions ==
    {s \in [type : SolutionTypes, pid : Pids \cup {<<>>}, approved : BOOLEAN] :
        /\ s.pid # <<>> => s.type \in {"format-drive", "disable-security", "kill-process"}
        /\ s.approved => s.type \in {"delete-system-file", "format-drive", "kill-process"}}

\* values of os.platform()
Platforms == {"darwin", "win32", "linux", "freebsd"}

\* os.homedir()
homedir == IF platform = "win32" THEN <<"C", ":", "\\", "U", "s", "e", "r", "s", "\\", "m", "e">> ELSE <<"/", "U", "s", "e", "r", "s", "/", "m", "e">>

\* ------------------------------------------- CommandExecutor, SolutionEngine
\* the value an entry point returns
Ret(success, why) ==
    [success |-> success, why |-> why, blocked |-> FALSE, requiresApproval |-> FALSE,
     threw |-> FALSE]

\* the invocation raised instead of returning (the promise is rejected)
Threw(why) == [Ret(FALSE, why) EXCEPT !.threw = TRUE]

NoCall == [op |-> "none", arg |-> <<>>, verdict |-> "none", spawned |-> <<>>,
           ret |-> Ret(FALSE, "none")]

NotParsed == [text |-> <<>>, actions |-> <<>>, done |-> FALSE]
NoPayload == [queryType |-> "none", kind |-> "none", length |-> 0, of |-> "none"]

\* the AIEngine after its constructor (ai-engine.js, lines 8-16), no call of
\* chat made yet
InitAux ==
    /\ response = <<>>
    /\ parsed = NotParsed
    /\ payload = NoPayload
    /\ aiEngine = [geminiClient |-> FALSE, ollamaAvailable |-> FALSE, useLocal |-> FALSE,
                   preferredProvider |-> "gemini", conversationHistory |-> <<>>]
    /\ chats = [id \in 1..MaxChats |->
                  [pc |-> "none", attempts |-> 0, provider |-> "none", error |-> FALSE]]

InitMain ==
    /\ InitAux
    /\ history = <<>>
    /\ auditLog = <<>>
    /\ lastCall = NoCall
    /\ calls = 0
    /\ inflight = {}

\* An invocation over IPC (main.js, lines 181-188 and 298-350) runs to its
\* return: verdict is the outcome of the classification check the entry point
\* made ("none" when it made none), spawnedCmds the command lines it handed
\* to exec, in order.
Call(op, arg, verdict, spawnedCmds, ret, newHistory, newAuditLog) ==
    /\ calls' = calls + 1
    /\ lastCall' = [op |-> op, arg |-> arg, verdict |-> verdict,
                    spawned |-> spawnedCmds, ret |-> ret]
    /\ history' = newHistory
    /\ auditLog' = newAuditLog
    /\ UNCHANGED <<platform, inflight>>
    /\ UNCHANGED <<rendererVars, auxVars>>

\* logCommand that overwrites the newest record instead of pushing
logCommandOverwrite(h, type, command, success) ==
    LET rec == [type |-> type, command |-> command, success |-> success]
    IN  IF h = <<>> THEN <<rec>> ELSE [h EXCEPT ![Len(h)] = rec]

\* logCommand with slice(0, 100) in place of slice(-100)
logCommandKeepOldest(h, type, command, success) ==
    LET pushed == Append(h, [type |-> type, command |-> command, success |-> success])
    IN  IF Len(pushed) > HistoryLimit THEN SubSeq(pushed, 1, HistoryLimit) ELSE pushed

\* CommandExecutor.logCommand, lines 498-511
logCommand(h, type, command, success) ==
    LET pushed == Append(h, [type |-> type, command |-> command, success |-> success])
    IN  IF Len(pushed) > HistoryLimit
        THEN SubSeq(pushed, Len(pushed) - HistoryLimit + 1, Len(pushed))
        ELSE pushed

\* SolutionEngine.log, lines 439-446
log(a, action, details) ==
    Append(a, [action |-> action, details |-> details, platform |-> platform])

\* runSafeCommand that falls back to the linux template on a platform
\* without one
runSafeCommandFallback ==
    /\ calls < MaxCalls
    /\ \E commandKey \in CommandKeys, ok \in BOOLEAN :
        IF ~isSafeCommand(commandKey)
        THEN Call("runSafeCommand", commandKey, "blocked", <<>>,
                  Ret(FALSE, "unknown-command"), history, auditLog)
        ELSE LET command == IF platform \in DOMAIN safeCommands[commandKey]
                            THEN safeCommands[commandKey][platform]
                            ELSE safeCommands[commandKey]["linux"]
             IN  Call("runSafeCommand", commandKey, "allowed", <<command>>,
                      Ret(ok, IF ok THEN "output" ELSE "exec-error"),
                      logCommand(history, commandKey, command, ok), auditLog)

\* CommandExecutor.runSafeCommand, lines 139-182
runSafeCommand ==
    /\ calls < MaxCalls
    /\ \E commandKey \in CommandKeys :
        IF ~isSafeCommand(commandKey)
        THEN Call("runSafeCommand", commandKey, "blocked", <<>>,
                  Ret(FALSE, "unknown-command"), history, auditLog)
        ELSE IF ~(platform \in DOMAIN safeCommands[commandKey])
        THEN Call("runSafeCommand", commandKey, "allowed", <<>>,
                  Ret(FALSE, "not-supported"), history, auditLog)
        ELSE \E ok \in BOOLEAN :
                LET command == safeCommands[commandKey][platform]
                IN  Call("runSafeCommand", commandKey, "allowed", <<command>>,
                         Ret(ok, IF ok THEN "output" ELSE "exec-error"),
                         logCommand(history, commandKey, command, ok), auditLog)

\* CommandExecutor.runCustomCommand, lines 187-224
runCustomCommand ==
    /\ calls < MaxCalls
    /\ \E command \in CustomCommands :
        IF isDangerous(command)
        THEN Call("runCustomCommand", command, "blocked", <<>>,
                  [Ret(FALSE, "not-allowed") EXCEPT !.blocked = TRUE], history, auditLog)
        ELSE \E ok \in BOOLEAN :
                Call("runCustomCommand", command, "allowed", <<command>>,
                     Ret(ok, IF ok THEN "output" ELSE "exec-error"),
                     logCommand(history, "custom", command, ok), auditLog)

\* CommandExecutor.killProcess, lines 229-243
killProcess ==
    /\ calls < MaxCalls
    /\ \E pid \in Pids, force \in BOOLEAN, ok \in BOOLEAN :
        LET command ==
                IF platform = "win32"
                THEN <<"t", "a", "s", "k", "k", "i", "l", "l", " ">> \o (IF force THEN <<"/", "F">> ELSE <<>>) \o <<" ", "/", "P", "I", "D", " ">> \o pid
                ELSE <<"k", "i", "l", "l", " ">> \o (IF force THEN <<"-", "9">> ELSE <<>>) \o <<" ">> \o pid
        IN  Call("killProcess", [pid |-> pid, force |-> force], "none", <<command>>,
                 Ret(ok, IF ok THEN "terminated" ELSE "exec-error"),
                 IF ok THEN logCommand(history, "kill-process", command, TRUE) ELSE history,
                 auditLog)

\* the replacement with a class that has no \s: white space is stripped too
IsNameCharNoSpace(c) ==
    \/ \E k \in 1..26 : c = UpperCase[k] \/ c = LowerCase[k]
    \/ c \in {"0", "1", "2", "3", "4", "5", "6", "7", "8", "9"}
    \/ c \in {"-", "_", "."}

\* the replacement of /[^a-zA-Z0-9\s\-_.]/g by "", lines 250 and 293
IsNameChar(c) ==
    \/ \E k \in 1..26 : c = UpperCase[k] \/ c = LowerCase[k]
    \/ c \in {"0", "1", "2", "3", "4", "5", "6", "7", "8", "9"}
    \/ IsSpace(c)
    \/ c \in {"-", "_", "."}

Sanitize(name) == SelectSeq(name, IsNameChar)

\* CommandExecutor.killProcessByName, lines 248-269, for one outcome of exec
KillByName(h, name, out) ==
    IF name = Undefined
    THEN [command |-> <<>>, history |-> h, ret |-> Threw("type-error")]
    ELSE
    LET safeName == Sanitize(name)
        command ==
            IF platform = "win32"
            THEN <<"t", "a", "s", "k", "k", "i", "l", "l", " ", "/", "F", " ", "/", "I", "M", " ", "\"">> \o safeName \o <<".", "e", "x", "e", "\"", " ", "2", ">", "n", "u", "l", " ", "|", "|", " ", "t", "a", "s", "k", "k", "i", "l", "l", " ", "/", "F", " ", "/", "I", "M", " ", "\"">>
                    \o safeName \o <<"\"", " ", "2", ">", "n", "u", "l">>
            ELSE <<"p", "k", "i", "l", "l", " ", "-", "x", " ", "\"">> \o safeName \o <<"\"", " ", "|", "|", " ", "p", "k", "i", "l", "l", " ", "\"">> \o safeName \o <<"\"">>
    IN  [command |-> command,
         history |-> IF out = "ok" THEN logCommand(h, "kill-by-name", command, TRUE) ELSE h,
         ret |-> IF out = "ok" THEN Ret(TRUE, "terminated")
                 ELSE IF out = "no-matching" THEN Ret(TRUE, "not-running")
                 ELSE Ret(FALSE, "exec-error")]

ExecOutcomes == {"ok", "no-matching", "error"}

killProcessByName ==
    /\ calls < MaxCalls
    /\ \E name \in AppNames, out \in ExecOutcomes :
        LET k == KillByName(history, name, out)
        IN  Call("killProcessByName", name, "none",
                 IF k.ret.threw THEN <<>> ELSE <<k.command>>, k.ret, k.history, auditLog)

\* CommandExecutor.openApp, lines 291-318, for one outcome of exec
OpenApp(h, appName, ok) ==
    IF appName = Undefined
    THEN [command |-> <<>>, history |-> h, ret |-> Threw("type-error")]
    ELSE
    LET safeName == Sanitize(appName)
        command ==
            IF platform = "darwin" THEN <<"o", "p", "e", "n", " ", "-", "a", " ", "\"">> \o safeName \o <<"\"">>
            ELSE IF platform = "win32" THEN <<"s", "t", "a", "r", "t", " ", "\"", "\"", " ", "\"">> \o safeName \o <<"\"">>
            ELSE safeName
    IN  [command |-> command,
         history |-> IF ok THEN logCommand(h, "open-app", command, TRUE) ELSE h,
         ret |-> Ret(ok, IF ok THEN "opened" ELSE "could-not-open")]

openApp ==
    /\ calls < MaxCalls
    /\ \E appName \in AppNames, ok \in BOOLEAN :
        LET o == OpenApp(history, appName, ok)
        IN  Call("openApp", appName, "none",
                 IF o.ret.threw THEN <<>> ELSE <<o.command>>, o.ret, o.history, auditLog)

\* CommandExecutor.restartApp, lines 323-347
restartApp ==
    /\ calls < MaxCalls
    /\ \E appName \in AppNames, out \in ExecOutcomes, ok \in BOOLEAN :
        LET killResult == KillByName(history, appName, out)
            openResult == OpenApp(killResult.history, appName, ok)
        IN  IF killResult.ret.threw
            THEN Call("restartApp", appName, "none", <<>>, killResult.ret, history, auditLog)
            ELSE Call("restartApp", appName, "none",
                      <<killResult.command, openResult.command>>,
                      Ret(ok, IF ok THEN "restarted" ELSE "failed-to-reopen"),
                      IF ok THEN logCommand(openResult.history, "restart-app", appName, TRUE)
                            ELSE openResult.history,
                      auditLog)

\* CommandExecutor.emptyTrash, lines 352-368
emptyTrash ==
    /\ calls < MaxCalls
    /\ \E ok \in BOOLEAN :
        LET command ==
                IF platform = "darwin" THEN <<"r", "m", " ", "-", "r", "f", " ", "~", "/", ".", "T", "r", "a", "s", "h", "/", "*">>
                ELSE IF platform = "win32"
                THEN <<"P", "o", "w", "e", "r", "S", "h", "e", "l", "l", ".", "e", "x", "e", " ", "-", "C", "o", "m", "m", "a", "n", "d", " ", "\"", "C", "l", "e", "a", "r", "-", "R", "e", "c", "y", "c", "l", "e", "B", "i", "n", " ", "-", "F", "o", "r", "c", "e", " ", "-", "E", "r", "r", "o", "r", "A", "c", "t", "i", "o", "n", " ", "S", "i", "l", "e", "n", "t", "l", "y", "C", "o", "n", "t", "i", "n", "u", "e", "\"">>
                ELSE <<"r", "m", " ", "-", "r", "f", " ", "~", "/", ".", "l", "o", "c", "a", "l", "/", "s", "h", "a", "r", "e", "/", "T", "r", "a", "s", "h", "/", "*">>
        IN  Call("emptyTrash", <<>>, "none", <<command>>,
                 Ret(ok, IF ok THEN "trash-emptied" ELSE "exec-error"),
                 IF ok THEN logCommand(history, "empty-trash", command, TRUE) ELSE history,
                 auditLog)

\* the session runs against a main process on one platform
Init == InitRenderer /\ platform = "darwin" /\ InitMain

\* ------------------------------------------------------ RelayApp (renderer)

\* processSystemMessage, line 282: the re-entrancy guard of the first call
ReentrancyGuard(stepCount, processing) == stepCount = 0 /\ processing

\* a step limit that lets stepCount = MAX_AGENTIC_STEPS through
StepLimitOffByOne(stepCount) == stepCount > MAX_AGENTIC_STEPS

\* processSystemMessage, line 283: the step limit
StepLimitReached(stepCount) == stepCount >= MAX_AGENTIC_STEPS

\* The call stack returns to the handler at its bottom.  sendMessage's loop
\* over the actions of the response (lines 261-265) dispatches the next
\* query-system action through executeQueryAction (stepCount 0), or ends
\* (line 267) and runs the finally block; a click handler just ends.
Unwind(rec) ==
    IF rec.origin = "send" /\ rec.rest > 0
    THEN [rec EXCEPT !.pc = "cmd", !.step = 0, !.rest = @ - 1, !.utils = 0,
                     !.pend = {}, !.pendAll = {}, !.ndisp = 1,
                     !.respDisp = @ + 1, !.term = "none", !.prev = rec.term]
    ELSE [IdleTask EXCEPT !.term = rec.term]

\* an unwinding without the finally block: the flag stays as it was
UnwindProcessingKept(rec, processing) == processing

\* isProcessing after the unwinding: sendMessage's finally block (line 274)
UnwindProcessing(rec, processing) ==
    IF rec.origin = "send" /\ rec.rest = 0 THEN FALSE ELSE processing

\* sendMessage, lines 192-210: guard, then the chat request
sendMessage ==
    /\ eventsLeft > 0
    /\ ~isProcessing
    /\ isProcessing' = TRUE
    /\ tasks' = [t \in Slots |->
                    IF t = FreeSlot THEN [IdleTask EXCEPT !.pc = "chat0", !.origin = "send"]
                    ELSE IF tasks[t].pc # "idle" THEN [tasks[t] EXCEPT !.stale = TRUE]
                    ELSE tasks[t]]
    /\ eventsLeft' = eventsLeft - 1
    /\ UNCHANGED <<buttons, modal, terminatedWith, dropped>>
    /\ UNCHANGED <<execVars, auxVars>>

\* sendMessage, lines 210-275: the chat request returns or throws
sendMessageResponse(t) ==
    /\ tasks[t].pc = "chat0"
    /\ \/ \* the request throws (catch, line 269) or returns an error (line 215)
          /\ tasks' = [tasks EXCEPT ![t] = IdleTask]
          /\ isProcessing' = FALSE
          /\ UNCHANGED buttons
       \/ \E acts \in ActionSeqs, eng \in EngineActions :
            LET rec == tasks[t]
                utilityActions == SelectSeq(acts, IsUtility)
                otherActions == SelectSeq(acts, IsOther)
                nq == Len(SelectSeq(acts, IsQuery))
                looped == [rec EXCEPT !.rest = nq]
            IN  IF Len(utilityActions) > 0
                THEN /\ tasks' = [tasks EXCEPT ![t] =
                            [rec EXCEPT !.pc = "util", !.utils = Len(utilityActions) - 1,
                                        !.pend = TypesOf(otherActions),
                                        !.pendAll = TypesOf(eng) \cup TypesOf(acts),
                                        !.rest = nq]]
                     /\ UNCHANGED <<isProcessing, buttons>>
                ELSE /\ buttons' = buttons \cup TypesOf(eng) \cup TypesOf(acts)
                     /\ tasks' = [tasks EXCEPT ![t] = Unwind(looped)]
                     /\ isProcessing' = UnwindProcessing(looped, isProcessing)
    /\ UNCHANGED <<modal, eventsLeft, terminatedWith, dropped>>
    /\ UNCHANGED <<execVars, auxVars>>

\* sendMessage, lines 248-255: executeUtilityAction returns a text or null
utilityDone(t) ==
    /\ tasks[t].pc = "util"
    /\ \E res \in {"text", "null"} :
        LET rec == tasks[t]
            looped == [rec EXCEPT !.utils = 0, !.pend = {}, !.pendAll = {}]
        IN  /\ buttons' = buttons \cup (IF res = "text" THEN rec.pend ELSE rec.pendAll)
            /\ IF rec.utils > 0
               THEN /\ tasks' = [tasks EXCEPT ![t] = [rec EXCEPT !.utils = @ - 1]]
                    /\ UNCHANGED isProcessing
               ELSE /\ tasks' = [tasks EXCEPT ![t] = Unwind(looped)]
                    /\ isProcessing' = UnwindProcessing(looped, isProcessing)
    /\ UNCHANGED <<modal, eventsLeft, terminatedWith, dropped>>
    /\ UNCHANGED <<execVars, auxVars>>

\* processSystemMessage, lines 278-294: entered with the result of a dispatch
processSystemMessage(t) ==
    LET rec == tasks[t]
        stopped == [rec EXCEPT !.term = "max-steps"]
    IN  IF ReentrancyGuard(rec.step, isProcessing)
        THEN /\ dropped' = TRUE
             /\ tasks' = [tasks EXCEPT ![t] = Unwind(rec)]
             /\ isProcessing' = UnwindProcessing(rec, isProcessing)
             /\ UNCHANGED terminatedWith
        ELSE IF StepLimitReached(rec.step)
        THEN /\ terminatedWith' = terminatedWith \cup {rec.ndisp}
             /\ tasks' = [tasks EXCEPT ![t] = Unwind(stopped)]
             /\ isProcessing' = UnwindProcessing(stopped, FALSE)
             /\ UNCHANGED dropped
        ELSE /\ isProcessing' = TRUE
             /\ tasks' = [tasks EXCEPT ![t] = [rec EXCEPT !.pc = "chat"]]
             /\ UNCHANGED <<terminatedWith, dropped>>

\* executeQueryActionAgentic, lines 355-385: runSafeCommand returns or throws
executeQueryActionAgentic(t) ==
    /\ tasks[t].pc = "cmd"
    /\ \E res \in {"output", "error", "empty", "throw"} :
        IF res = "throw"
        THEN /\ tasks' = [tasks EXCEPT ![t] = Unwind(tasks[t])]
             /\ isProcessing' = UnwindProcessing(tasks[t], isProcessing)
             /\ UNCHANGED <<terminatedWith, dropped>>
        ELSE processSystemMessage(t)
    /\ UNCHANGED <<buttons, modal, eventsLeft>>
    /\ UNCHANGED <<execVars, auxVars>>

\* executeDeepScan, lines 623-689: runDeepScan returns or throws
executeDeepScan(t) ==
    /\ tasks[t].pc \in {"scanA", "scan0"}
    /\ \E res \in {"results", "throw"} :
        IF tasks[t].pc = "scan0" \/ res = "throw"
        THEN /\ tasks' = [tasks EXCEPT ![t] = Unwind(tasks[t])]
             /\ isProcessing' = UnwindProcessing(tasks[t], isProcessing)
             /\ UNCHANGED <<terminatedWith, dropped>>
        ELSE processSystemMessage(t)
    /\ UNCHANGED <<buttons, modal, eventsLeft>>
    /\ UNCHANGED <<execVars, auxVars>>

\* processSystemMessage, lines 294-331: the chat request returns or throws
processSystemMessageResponse(t) ==
    /\ tasks[t].pc = "chat"
    /\ \/ \* the request throws (catch, line 326) or returns an error (line 297)
          LET failed == [tasks[t] EXCEPT !.term = "backend-error"]
          IN  /\ tasks' = [tasks EXCEPT ![t] = Unwind(failed)]
              /\ isProcessing' = UnwindProcessing(failed, FALSE)
              /\ UNCHANGED buttons
       \/ \E acts \in ActionSeqs, eng \in EngineActions :
            LET rec == tasks[t]
                userActions == SelectSeq(acts, IsUserAction)
                queryActions == SelectSeq(acts, IsQuery)
                deepScanActions == SelectSeq(acts, IsDeepScan)
                concluded == [rec EXCEPT !.term = "concluded"]
            IN  /\ buttons' = buttons \cup TypesOf(eng) \cup TypesOf(userActions)
                /\ IF Len(queryActions) > 0
                   THEN /\ tasks' = [tasks EXCEPT ![t] =
                               [rec EXCEPT !.pc = "cmd", !.step = @ + 1, !.ndisp = @ + 1]]
                        /\ isProcessing' = FALSE
                   ELSE IF Len(deepScanActions) > 0
                   THEN /\ tasks' = [tasks EXCEPT ![t] =
                               [rec EXCEPT !.pc = "scanA", !.step = @ + 1, !.ndisp = @ + 1]]
                        /\ isProcessing' = FALSE
                   ELSE /\ tasks' = [tasks EXCEPT ![t] = Unwind(concluded)]
                        /\ isProcessing' = UnwindProcessing(concluded, FALSE)
    /\ UNCHANGED <<modal, eventsLeft, terminatedWith, dropped>>
    /\ UNCHANGED <<execVars, auxVars>>

\* showActionConfirmation, lines 760-784
showActionConfirmation(a) ==
    /\ modal' = [active |-> TRUE, action |-> a]
    /\ UNCHANGED tasks

\* a click handler that dispatches every action at once, without the modal
handleActionDirect(a) ==
    /\ eventsLeft > 0
    /\ a \in buttons
    /\ eventsLeft' = eventsLeft - 1
    /\ tasks' = [tasks EXCEPT ![FreeSlot] =
            [IdleTask EXCEPT !.pc = IF a \in approvedActionTypes THEN "approved" ELSE "solution",
                             !.origin = "click", !.act = a]]
    /\ UNCHANGED <<isProcessing, buttons, modal, terminatedWith, dropped>>
    /\ UNCHANGED <<execVars, auxVars>>

\* handleAction, lines 507-534: a click on the button of action type a
handleAction(a) ==
    /\ eventsLeft > 0
    /\ a \in buttons
    /\ eventsLeft' = eventsLeft - 1
    /\ IF a = "query-system"
       THEN /\ tasks' = [tasks EXCEPT ![FreeSlot] =
                    [IdleTask EXCEPT !.pc = "cmd", !.origin = "click", !.ndisp = 1]]
            /\ UNCHANGED modal
       ELSE IF a = "run-deep-scan"
       THEN /\ tasks' = [tasks EXCEPT ![FreeSlot] =
                    [IdleTask EXCEPT !.pc = "scan0", !.origin = "click"]]
            /\ UNCHANGED modal
       ELSE showActionConfirmation(a)
    /\ UNCHANGED <<isProcessing, buttons, terminatedWith, dropped>>
    /\ UNCHANGED <<execVars, auxVars>>

\* modalConfirm.onclick, lines 773-781: hideModal, then the dispatch
modalConfirm ==
    /\ modal.active
    /\ modal' = [modal EXCEPT !.active = FALSE]
    /\ tasks' = [tasks EXCEPT ![FreeSlot] =
            [IdleTask EXCEPT !.pc = IF modal.action \in approvedActionTypes
                                    THEN "approved" ELSE "solution",
                             !.origin = "click", !.act = modal.action]]
    /\ UNCHANGED <<isProcessing, buttons, eventsLeft, terminatedWith, dropped>>
    /\ UNCHANGED <<execVars, auxVars>>

\* hideModal, lines 786-788: Cancel, Close or a click on the overlay
hideModal ==
    /\ modal.active
    /\ modal' = [modal EXCEPT !.active = FALSE]
    /\ UNCHANGED <<isProcessing, tasks, buttons, eventsLeft, terminatedWith, dropped>>
    /\ UNCHANGED <<execVars, auxVars>>

\* executeApprovedAction, lines 1012-1058: the dispatcher call returns or throws
executeApprovedAction(t) ==
    /\ tasks[t].pc = "approved"
    /\ tasks' = [tasks EXCEPT ![t] = IdleTask]
    /\ UNCHANGED <<isProcessing, buttons, modal, eventsLeft, terminatedWith, dropped>>
    /\ UNCHANGED <<execVars, auxVars>>

\* executeSolution, lines 811-836: executeSolution returns or throws
executeSolution(t) ==
    /\ tasks[t].pc = "solution"
    /\ tasks' = [tasks EXCEPT ![t] = IdleTask]
    /\ UNCHANGED <<isProcessing, buttons, modal, eventsLeft, terminatedWith, dropped>>
    /\ UNCHANGED <<execVars, auxVars>>

Next ==
    \/ sendMessage
    \/ \E a \in ActionTypes : handleAction(a)
    \/ modalConfirm
    \/ hideModal
    \/ \E t \in Slots : sendMessageResponse(t)
    \/ \E t \in Slots : utilityDone(t)
    \/ \E t \in Slots : executeQueryActionAgentic(t)
    \/ \E t \in Slots : executeDeepScan(t)
    \/ \E t \in Slots : processSystemMessageResponse(t)
    \/ \E t \in Slots : executeApprovedAction(t)
    \/ \E t \in Slots : executeSolution(t)

Spec == Init /\ [][Next]_vars

\* the session with fewer user events
InitShort ==
    /\ InitRenderer!1 /\ InitRenderer!2 /\ InitRenderer!3 /\ InitRenderer!4
    /\ eventsLeft = MaxShortEvents
    /\ InitRenderer!6 /\ InitRenderer!7
    /\ platform = "darwin"
    /\ InitMain

SpecShort == InitShort /\ [][Next]_vars

\* the short session in which every backend call and every dispatch that was
\* started comes back: the awaits of sendMessage, processSystemMessage,
\* executeQueryActionAgentic, executeDeepScan, executeApprovedAction and
\* executeSolution are resumed by the event loop once their promise settles
SpecFair ==
    /\ SpecShort
    /\ \A t \in Slots :
          /\ WF_vars(sendMessageResponse(t))
          /\ WF_vars(utilityDone(t))
          /\ WF_vars(executeQueryActionAgentic(t))
          /\ WF_vars(executeDeepScan(t))
          /\ WF_vars(processSystemMessageResponse(t))
          /\ WF_vars(executeApprovedAction(t))
          /\ WF_vars(executeSolution(t))

\* CommandExecutor.getFolderSize, lines 373-387: the command it hands to exec
FolderSizeCommand(path) ==
    IF platform \in {"darwin", "linux"}
    THEN <<<<"d", "u", " ", "-", "s", "k", " ", "\"">> \o path \o <<"\"", " ", "2", ">", "/", "d", "e", "v", "/", "n", "u", "l", "l", " ", "|", " ", "c", "u", "t", " ", "-", "f", "1">>>>
    ELSE IF platform = "win32"
    THEN <<<<"p", "o", "w", "e", "r", "s", "h", "e", "l", "l", " ", "\"", "(", "G", "e", "t", "-", "C", "h", "i", "l", "d", "I", "t", "e", "m", " ", "'">> \o path
            \o <<"'", " ", "-", "R", "e", "c", "u", "r", "s", "e", " ", "-", "E", "r", "r", "o", "r", "A", "c", "t", "i", "o", "n", " ", "S", "i", "l", "e", "n", "t", "l", "y", "C", "o", "n", "t", "i", "n", "u", "e", " ", "|", " ", "M", "e", "a", "s", "u", "r", "e", "-", "O", "b", "j", "e", "c", "t", " ", "-", "P", "r", "o", "p", "e", "r", "t", "y", " ", "L", "e", "n", "g", "t", "h", " ", "-", "S", "u", "m", ")", ".", "S", "u", "m", "\"">>>>
    ELSE <<>>

\* clearCaches, lines 414-421: one cache path; the sizes are taken before and,
\* when the removal did not throw, after it
ClearPath(path, ok) ==
    FolderSizeCommand(path)
        \o <<<<"r", "m", " ", "-", "r", "f", " ", "\"">> \o path \o <<"\"", "/", "*", " ", "2", ">", "/", "d", "e", "v", "/", "n", "u", "l", "l">>>>
        \o (IF ok THEN FolderSizeCommand(path) ELSE <<>>)

\* CommandExecutor.clearCaches, lines 402-472
clearCaches ==
    /\ calls < MaxCalls
    /\ IF platform = "darwin"
       THEN \E ok1 \in BOOLEAN, ok2 \in BOOLEAN :
               Call("clearCaches", <<>>, "none",
                    ClearPath(homedir \o <<"/", "L", "i", "b", "r", "a", "r", "y", "/", "C", "a", "c", "h", "e", "s">>, ok1)
                       \o ClearPath(<<"/", "L", "i", "b", "r", "a", "r", "y", "/", "C", "a", "c", "h", "e", "s">>, ok2),
                    Ret(TRUE, "cleaned"),
                    logCommand(history, "clear-caches", <<"m", "a", "c", "O", "S", " ", "c", "a", "c", "h", "e", " ", "c", "l", "e", "a", "r">>, TRUE), auditLog)
       ELSE IF platform = "win32"
       THEN \E ok \in BOOLEAN :
               LET tempPath == homedir \o <<"\\", "A", "p", "p", "D", "a", "t", "a", "\\", "L", "o", "c", "a", "l", "\\", "T", "e", "m", "p">>
               IN  Call("clearCaches", <<>>, "none",
                        FolderSizeCommand(tempPath) \o <<<<"d", "e", "l", " ", "/", "q", "/", "f", "/", "s", " ", "%", "T", "E", "M", "P", "%", "\\", "*", " ", "2", ">", "n", "u", "l">>>>
                           \o (IF ok THEN FolderSizeCommand(tempPath) ELSE <<>>),
                        Ret(ok, IF ok THEN "cleaned" ELSE "exec-error"),
                        IF ok THEN logCommand(history, "clear-caches", <<"W", "i", "n", "d", "o", "w", "s", " ", "t", "e", "m", "p", " ", "c", "l", "e", "a", "r">>, TRUE)
                              ELSE history,
                        auditLog)
       ELSE Call("clearCaches", <<>>, "none", <<>>, Ret(FALSE, "not-supported"), history, auditLog)

\* CommandExecutor.flushDNS, lines 477-493
flushDNS ==
    /\ calls < MaxCalls
    /\ \E ok \in BOOLEAN :
        LET command ==
                IF platform = "darwin"
                THEN <<"s", "u", "d", "o", " ", "d", "s", "c", "a", "c", "h", "e", "u", "t", "i", "l", " ", "-", "f", "l", "u", "s", "h", "c", "a", "c", "h", "e", " ", "&", "&", " ", "s", "u", "d", "o", " ", "k", "i", "l", "l", "a", "l", "l", " ", "-", "H", "U", "P", " ", "m", "D", "N", "S", "R", "e", "s", "p", "o", "n", "d", "e", "r">>
                ELSE IF platform = "win32" THEN <<"i", "p", "c", "o", "n", "f", "i", "g", " ", "/", "f", "l", "u", "s", "h", "d", "n", "s">>
                ELSE <<"s", "u", "d", "o", " ", "s", "y", "s", "t", "e", "m", "d", "-", "r", "e", "s", "o", "l", "v", "e", " ", "-", "-", "f", "l", "u", "s", "h", "-", "c", "a", "c", "h", "e", "s">>
        IN  Call("flushDNS", <<>>, "none", <<command>>,
                 Ret(ok, IF ok THEN "dns-flushed" ELSE "exec-error"),
                 IF ok THEN logCommand(history, "flush-dns", command, TRUE) ELSE history,
                 auditLog)

\* SolutionEngine.killProcess, lines 104-127: the command
SolutionKillCommand(pid) ==
    IF platform \in {"darwin", "linux"}
    THEN <<"k", "i", "l", "l", " ", "-", "9", " ">> \o pid
    ELSE <<"t", "a", "s", "k", "k", "i", "l", "l", " ", "/", "P", "I", "D", " ">> \o pid \o <<" ", "/", "F">>

\* SolutionEngine.flushDNS, lines 200-221: the command
SolutionFlushCommand ==
    IF platform = "darwin"
    THEN <<"s", "u", "d", "o", " ", "d", "s", "c", "a", "c", "h", "e", "u", "t", "i", "l", " ", "-", "f", "l", "u", "s", "h", "c", "a", "c", "h", "e", ";", " ", "s", "u", "d", "o", " ", "k", "i", "l", "l", "a", "l", "l", " ", "-", "H", "U", "P", " ", "m", "D", "N", "S", "R", "e", "s", "p", "o", "n", "d", "e", "r">>
    ELSE IF platform = "win32" THEN <<"i", "p", "c", "o", "n", "f", "i", "g", " ", "/", "f", "l", "u", "s", "h", "d", "n", "s">>
    ELSE <<"s", "u", "d", "o", " ", "s", "y", "s", "t", "e", "m", "c", "t", "l", " ", "r", "e", "s", "t", "a", "r", "t", " ", "s", "y", "s", "t", "e", "m", "d", "-", "r", "e", "s", "o", "l", "v", "e", "d">>

\* SolutionEngine.execute, lines 16-85
execute ==
    /\ calls < MaxCalls
    /\ \E solution \in Solutions :
        IF solution.type = ""
        THEN Call("execute", solution, "none", <<>>, Threw("threw-invalid-solution"),
                  history, auditLog)
        ELSE IF ~isSafe(solution)
        THEN Call("execute", solution, "blocked", <<>>,
                  [Ret(FALSE, "requires-approval") EXCEPT !.requiresApproval = TRUE],
                  history, auditLog)
        ELSE LET logged == log(auditLog, "execute", solution)
                 failed == log(logged, "error", solution)
             IN  IF solution.type \in {"kill-process", "flush-dns"}
                 THEN IF solution.type = "kill-process" /\ solution.pid = <<>>
                      THEN Call("execute", solution, "allowed", <<>>,
                                Ret(FALSE, "process-id-required"), history, failed)
                      ELSE \E ok \in BOOLEAN :
                            Call("execute", solution, "allowed",
                                 <<IF solution.type = "kill-process"
                                   THEN SolutionKillCommand(solution.pid)
                                   ELSE SolutionFlushCommand>>,
                                 Ret(ok, IF ok THEN "done" ELSE "exec-error"),
                                 history, IF ok THEN logged ELSE failed)
                 ELSE IF solution.type = "suggest-restart"
                 THEN Call("execute", solution, "allowed", <<>>, Ret(TRUE, "user-action"),
                           history, logged)
                 ELSE Call("execute", solution, "allowed", <<>>,
                           Ret(FALSE, "unknown-solution-type"), history, logged)

\* the keys of the object getSafeCommands returns, in the order of insertion
\* (part_002, lines 42-112); each has a darwin, a win32 and a linux command
CatalogKeys ==
    <<"system-info", "disk-usage", "memory-info", "process-list", "top-processes",
      "network-info", "dns-servers", "uptime", "battery", "startup-apps",
      "installed-apps", "temp-files-size", "browser-processes", "printer-status",
      "printer-queue">>

\* the queryType values the system prompt offers the model for query-system
\* (ai-engine.js, line 65)
AdvertisedQueryTypes ==
    {"system-info", "disk-usage", "memory-info", "process-list", "top-processes",
     "network-info", "uptime", "battery", "startup-apps", "installed-apps",
     "temp-files-size", "browser-processes", "printer-status", "printer-queue"}

\* a catalog that loses a key once the command of that key has been run
AvailableCommandsUnused ==
    LET used == {history[i].type : i \in 1..Len(history)}
        keys == SelectSeq(CatalogKeys, LAMBDA k : k \notin used)
    IN  [k \in 1..Len(keys) |->
            [key |-> keys[k], available |-> platform \in {"darwin", "win32", "linux"}]]

\* CommandExecutor.getAvailableCommands, lines 523-528
AvailableCommands ==
    [k \in 1..Len(CatalogKeys) |->
        [key |-> CatalogKeys[k], available |-> platform \in {"darwin", "win32", "linux"}]]

getAvailableCommands ==
    /\ calls < MaxCalls
    /\ Call("getAvailableCommands", <<>>, "none", <<>>,
            Ret(TRUE, "commands") @@ [value |-> AvailableCommands], history, auditLog)

NextExec ==
    \/ getAvailableCommands
    \/ runSafeCommand
    \/ runCustomCommand
    \/ killProcess
    \/ killProcessByName
    \/ openApp
    \/ restartApp
    \/ emptyTrash
    \/ clearCaches
    \/ flushDNS
    \/ execute

\* the main process on its own, on any platform
InitExec == InitRenderer /\ platform \in Platforms /\ InitMain

SpecExec == InitExec /\ [][NextExec]_vars

\* SolutionEngine.auditLog after EarlierCalls invocations of execute with a
\* suggest-restart solution, each of which logged one record (lines 31-32)
EarlierAudit ==
    [k \in 1..EarlierCalls |->
        [action |-> "execute",
         details |-> [type |-> "suggest-restart", pid |-> <<>>, approved |-> FALSE],
         platform |-> platform]]

\* the main process, fresh or after those invocations
InitAudit ==
    /\ InitRenderer
    /\ InitAux
    /\ platform = "darwin"
    /\ history = <<>>
    /\ auditLog \in {<<>>, EarlierAudit}
    /\ lastCall = NoCall
    /\ calls = 0
    /\ inflight = {}

SpecAudit == InitAudit /\ [][NextExec]_vars

\* ------------------------------------------------- the history under load
\* The k-th call of logCommand in a run: the call sites of part_002 pass a
\* type, the command line and the outcome; here the command line is the
\* serial number k, which tells the records apart as the timestamp does.
LoggedTypes == <<"custom", "kill-process", "open-app">>

AuditCall(k) ==
    [type |-> LoggedTypes[(k % Len(LoggedTypes)) + 1], command |-> k, success |-> (k % 2 = 0)]

\* one more call of logCommand (lines 498-511)
logAppend ==
    /\ calls < MaxAppends
    /\ LET c == AuditCall(calls + 1)
       IN  history' = logCommand(history, c.type, c.command, c.success)
    /\ calls' = calls + 1
    /\ UNCHANGED <<platform, auditLog, lastCall, inflight>>
    /\ UNCHANGED <<rendererVars, auxVars>>

NextLog == logAppend

SpecLog == InitExec /\ [][NextLog]_vars

\* ------------------------------------------- invocations that overlap
\* runCustomCommand is suspended at its await of exec (line 201); other
\* invocations start and finish meanwhile.  The run starts after EarlierCalls
\* invocations that have all returned.
EarlierHistory == [k \in 1..EarlierCalls |-> AuditCall(k)]

InitConc ==
    /\ InitRenderer
    /\ InitAux
    /\ platform = "darwin"
    /\ history \in {<<>>, EarlierHistory}
    /\ auditLog = <<>>
    /\ lastCall = NoCall
    /\ calls = Len(history)
    /\ inflight = {}

\* runCustomCommand, lines 187-205: the command is handed to exec
runCustomCommandBegin ==
    /\ calls < (IF calls < EarlierCalls THEN 0 ELSE EarlierCalls) + MaxOverlapCalls
    /\ Cardinality(inflight) < MaxInFlight
    /\ calls' = calls + 1
    /\ inflight' = inflight \cup {calls + 1}
    /\ UNCHANGED <<platform, history, auditLog, lastCall>>
    /\ UNCHANGED <<rendererVars, auxVars>>

\* runCustomCommand, lines 206-223: exec resolves or rejects, and the
\* outcome is logged
runCustomCommandEnd ==
    /\ \E k \in inflight, ok \in BOOLEAN :
        /\ history' = logCommand(history, "custom", k, ok)
        /\ inflight' = inflight \ {k}
    /\ UNCHANGED <<platform, auditLog, lastCall, calls>>
    /\ UNCHANGED <<rendererVars, auxVars>>

NextConc == runCustomCommandBegin \/ runCustomCommandEnd

SpecConc == InitConc /\ [][NextConc]_vars

\* ------------------------------------------------------- parseAIResponse
\* part_005, lines 940-969.  Texts are tuples of characters; lastIndex counts
\* characters from 0 as in JavaScript, positions of a tuple count from 1.
WordChars ==
    {UpperCase[k] : k \in 1..26} \cup {LowerCase[k] : k \in 1..26}
    \cup {"0", "1", "2", "3", "4", "5", "6", "7", "8", "9", "_"}

ActionOpen == <<"[", "A", "C", "T", "I", "O", "N", ":">>

StartsAt(s, i, p) ==
    /\ i + Len(p) - 1 <= Len(s)
    /\ SubSeq(s, i, i + Len(p) - 1) = p

\* the first position from i on that holds character c, 0 when there is none
FirstAt(s, i, c) ==
    IF \E e \in i..Len(s) : s[e] = c
    THEN CHOOSE e \in i..Len(s) : s[e] = c /\ \A d \in i..(e - 1) : s[d] # c
    ELSE 0

\* /\[ACTION:\s*([^\]]+)\]/ matched at position i (line 942): the tag ends at
\* the first "]", and one character at least lies between the colon and it
BlockMatchesAt(s, i) ==
    /\ StartsAt(s, i, ActionOpen)
    /\ FirstAt(s, i + Len(ActionOpen), "]") > i + Len(ActionOpen)

\* group 1: \s* is greedy and gives one character back when nothing else is
\* left for [^\]]+
BlockContent(s, i) ==
    LET from == i + Len(ActionOpen)
        to == FirstAt(s, from, "]") - 1
        inner == SubSeq(s, from, to)
        rest == IF \E k \in 1..Len(inner) : ~IsSpace(inner[k])
                THEN CHOOSE k \in 1..Len(inner) :
                        ~IsSpace(inner[k]) /\ \A d \in 1..(k - 1) : IsSpace(inner[d])
                ELSE Len(inner)
    IN  SubSeq(inner, rest, Len(inner))

\* actionBlockRegex.exec(responseText) with the regex at lastIndex (line 950)
BlockExec(s, lastIndex) ==
    IF \E i \in (lastIndex + 1)..Len(s) : BlockMatchesAt(s, i)
    THEN LET i == CHOOSE k \in (lastIndex + 1)..Len(s) :
                    BlockMatchesAt(s, k) /\ \A d \in (lastIndex + 1)..(k - 1) : ~BlockMatchesAt(s, d)
             e == FirstAt(s, i + Len(ActionOpen), "]")
         IN  [found |-> TRUE, match |-> SubSeq(s, i, e), content |-> BlockContent(s, i),
              lastIndex |-> e]
    ELSE [found |-> FALSE, match |-> <<>>, content |-> <<>>, lastIndex |-> 0]

\* the end of the run of word characters that starts at position i
WordEnd(c, i) ==
    CHOOSE r \in i..Len(c) :
        /\ \A d \in i..r : c[d] \in WordChars
        /\ r = Len(c) \/ c[r + 1] \notin WordChars

\* /(\w+)="([^"]+)"/ matched at position i (line 944)
ParamMatchesAt(c, i) ==
    /\ c[i] \in WordChars
    /\ LET r == WordEnd(c, i)
       IN  /\ StartsAt(c, r + 1, <<"=", "\"">>)
           /\ FirstAt(c, r + 3, "\"") > r + 3

\* paramRegex keeps lastIndex where it was after a failed exec
AfterNullKept(lastIndex) == lastIndex

\* lastIndex of a global regex after an exec that found nothing
AfterNull(lastIndex) == 0

\* paramRegex.exec(actionContent) with the regex at lastIndex (line 956)
ParamExec(c, lastIndex) ==
    IF \E i \in (lastIndex + 1)..Len(c) : ParamMatchesAt(c, i)
    THEN LET i == CHOOSE k \in (lastIndex + 1)..Len(c) :
                    ParamMatchesAt(c, k) /\ \A d \in (lastIndex + 1)..(k - 1) : ~ParamMatchesAt(c, d)
             r == WordEnd(c, i)
             q == FirstAt(c, r + 3, "\"")
         IN  [found |-> TRUE, key |-> SubSeq(c, i, r), value |-> SubSeq(c, r + 3, q - 1),
              lastIndex |-> q]
    ELSE [found |-> FALSE, key |-> <<>>, value |-> <<>>, lastIndex |-> AfterNull(lastIndex)]

\* action[key] = value on an object kept as its properties in insertion order
SetProperty(action, key, value) ==
    IF \E k \in 1..Len(action) : action[k].key = key
    THEN [k \in 1..Len(action) |->
            IF action[k].key = key THEN [key |-> key, value |-> value] ELSE action[k]]
    ELSE Append(action, [key |-> key, value |-> value])

HasType(action) == \E k \in 1..Len(action) : action[k].key = <<"t", "y", "p", "e">>

\* the inner while loop, lines 955-958
RECURSIVE ParamLoop(_, _, _)
ParamLoop(c, lastIndex, action) ==
    LET m == ParamExec(c, lastIndex)
    IN  IF m.found
        THEN ParamLoop(c, m.lastIndex, SetProperty(action, m.key, m.value))
        ELSE [action |-> action, lastIndex |-> m.lastIndex]

\* text.replace(match, ''), line 965: the first occurrence goes
RemoveFirst(text, match) ==
    IF \E i \in 1..Len(text) : StartsAt(text, i, match)
    THEN LET i == CHOOSE k \in 1..Len(text) :
                    StartsAt(text, k, match) /\ \A d \in 1..(k - 1) : ~StartsAt(text, d, match)
         IN  SubSeq(text, 1, i - 1) \o SubSeq(text, i + Len(match), Len(text))
    ELSE text

\* String.prototype.trim, line 968
Trim(text) ==
    IF \A k \in 1..Len(text) : IsSpace(text[k])
    THEN <<>>
    ELSE LET a == CHOOSE k \in 1..Len(text) :
                    ~IsSpace(text[k]) /\ \A d \in 1..(k - 1) : IsSpace(text[d])
             b == CHOOSE k \in 1..Len(text) :
                    ~IsSpace(text[k]) /\ \A d \in (k + 1)..Len(text) : IsSpace(text[d])
         IN  SubSeq(text, a, b)

\* the outer while loop, lines 949-966
RECURSIVE BlockLoop(_, _, _, _, _)
BlockLoop(responseText, blockLastIndex, paramLastIndex, text, actions) ==
    LET blockMatch == BlockExec(responseText, blockLastIndex)
        p == ParamLoop(blockMatch.content, paramLastIndex, <<>>)
    IN  IF ~blockMatch.found
        THEN [text |-> text, actions |-> actions]
        ELSE BlockLoop(responseText, blockMatch.lastIndex, p.lastIndex,
                       RemoveFirst(text, blockMatch.match),
                       IF HasType(p.action) THEN Append(actions, p.action) ELSE actions)

parseAIResponse(responseText) ==
    LET r == BlockLoop(responseText, 0, 0, responseText, <<>>)
    IN  [text |-> Trim(r.text), actions |-> r.actions, done |-> TRUE]

\* pieces of response texts: prose, white space, tags, and an opened tag
Prose == <<"h", "i">>
Blank == <<" ">>
TypedTag == <<"[", "A", "C", "T", "I", "O", "N", ":", " ", "t", "y", "p", "e", "=", "\"", "a", "\"", "]">>
TwoKeyTag == <<"[", "A", "C", "T", "I", "O", "N", ":", " ", "t", "y", "p", "e", "=", "\"", "b", "\"", " ", "n", "=", "\"", "1", "\"", "]">>
UntypedTag == <<"[", "A", "C", "T", "I", "O", "N", ":", " ", "k", "=", "\"", "v", "\"", "]">>
BracketTag == <<"[", "A", "C", "T", "I", "O", "N", ":", " ", "t", "y", "p", "e", "=", "\"", "x", "]", "y", "\"", "]">>
OpenedTag == <<"[", "A", "C", "T", "I", "O", "N", ":", " ">>

\* a tag with an empty value, a tag with a quote inside a value, and a tag
\* written around another tag
EmptyValueTag == <<"[", "A", "C", "T", "I", "O", "N", ":", " ", "t", "y", "p", "e", "=", "\"", "a", "\"", " ", "k", "=", "\"", "\"", "]">>
QuotedTag == <<"[", "A", "C", "T", "I", "O", "N", ":", " ", "t", "y", "p", "e", "=", "\"", "a", "\"", "b", "\"", " ", "n", "=", "\"", "1", "\"", "]">>
NestedTag == <<"[", "A", "C", "T", "[", "A", "C", "T", "I", "O", "N", ":", " ", "t", "y", "p", "e", "=", "\"", "a", "\"", "]", "I", "O", "N", ":", " ", "t", "y", "p", "e", "=", "\"", "b", "\"", "]">>

Pieces == {Prose, Blank, TypedTag, TwoKeyTag, UntypedTag, BracketTag, OpenedTag,
           EmptyValueTag, QuotedTag, NestedTag}

Responses == UNION {[1..n -> Pieces] : n \in 0..MaxPieces}

RECURSIVE Flatten(_)
Flatten(pieces) ==
    IF pieces = <<>> THEN <<>> ELSE Head(pieces) \o Flatten(Tail(pieces))

\* a response arrives (line 300 hands response.text to parseAIResponse)
receiveResponse ==
    /\ \E r \in Responses : response' = r
    /\ parsed' = NotParsed
    /\ UNCHANGED <<payload, engineVars>>
    /\ UNCHANGED <<rendererVars, execVars>>

\* one call of parseAIResponse
parseResponse ==
    /\ parsed' = parseAIResponse(Flatten(response))
    /\ UNCHANGED <<response, payload, engineVars>>
    /\ UNCHANGED <<rendererVars, execVars>>

NextParse == receiveResponse \/ parseResponse

SpecParse == Init /\ [][NextParse]_vars

\* ------------------------------------------- the SYSTEM_RESULT messages
\* A text is kept as its length.  What runSafeCommand returns (part_002,
\* lines 166-180): on success the trimmed stdout, on failure the error message
\* and what stdout held.
ResultLengths == {0, 1, 1500, 1501, 2000, MaxResultLength}

QueryResults ==
    {r \in [success : BOOLEAN, output : ResultLengths, error : ResultLengths] :
        r.success <=> r.error = 0}

Shorter(a, b) == IF a < b THEN a ELSE b

\* the text put between the quotes of output="..." or error="...",
\* executeQueryActionAgentic, lines 358-379
QueryResultMessage(queryType, result) ==
    IF result.success /\ result.output > 0
    THEN [queryType |-> queryType, kind |-> "output",
          length |-> Shorter(result.output, 1500), of |-> result]
    ELSE IF result.error > 0
    THEN [queryType |-> queryType, kind |-> "error", length |-> result.error, of |-> result]
    ELSE [queryType |-> queryType, kind |-> "output", length |-> Len("No data returned"),
          of |-> result]

RECURSIVE Sum(_)
Sum(lengths) == IF lengths = <<>> THEN 0 ELSE Head(lengths) + Sum(Tail(lengths))

\* what runDeepScan returns: the number of errors (one digit) and the
\* lengths of the names of the crashed apps
ScanResults ==
    [errors : {0, 2}, crashes : UNION {[1..n -> {6, 1000}] : n \in 0..MaxCrashes}]

\* the summary of executeDeepScan, lines 630-637, sent at lines 640-644
DeepScanMessage(results) ==
    LET crashCount == Len(results.crashes)
        head == Len("Errors: 0, Crashes: 0. ")
        apps == IF crashCount > 0
                THEN Len("Crashing apps: ") + Sum(results.crashes)
                     + Len(", ") * (crashCount - 1) + Len(". ")
                ELSE 0
        clean == IF results.errors = 0 /\ crashCount = 0
                 THEN Len("System logs are clean.") ELSE 0
    IN  [queryType |-> "deep-scan", kind |-> "output", length |-> head + apps + clean,
         of |-> results]

\* executeQueryActionAgentic builds the message for processSystemMessage
sendQueryResult ==
    /\ \E queryType \in CommandKeys, result \in QueryResults :
        payload' = QueryResultMessage(queryType, result)
    /\ UNCHANGED <<response, parsed, engineVars>>
    /\ UNCHANGED <<rendererVars, execVars>>

\* executeDeepScan builds the message for processSystemMessage
sendScanResult ==
    /\ \E results \in ScanResults : payload' = DeepScanMessage(results)
    /\ UNCHANGED <<response, parsed, engineVars>>
    /\ UNCHANGED <<rendererVars, execVars>>

NextPayload == sendQueryResult \/ sendScanResult

SpecPayload == Init /\ [][NextPayload]_vars

\* ------------------------------------------------------- AIEngine.chat
\* chats[id] is the call of chat with the id-th message: pc is "none" before
\* the call, "await" while it is suspended at the request to a provider (its
\* own or the one of its recursive call), "returned" after it; attempts counts
\* the times the body of chat ran for it; error is the error flag of the
\* result.  An entry of conversationHistory keeps the role and, as content,
\* the serial number of the call that pushed it.

\* lines 223-236: the provider the body of chat turns to
Provider(e) ==
    LET useOllama == e.preferredProvider = "ollama" \/ e.useLocal
    IN  IF ~useOllama /\ e.geminiClient THEN "gemini"
        ELSE IF e.ollamaAvailable THEN "ollama"
        ELSE IF e.geminiClient THEN "gemini"
        ELSE "fallback"

\* a catch block that falls back whenever the local provider is available
ShouldFallBackAlways(e) == e.ollamaAvailable

\* line 253: the catch block retries with the local provider
ShouldFallBack(e) == ~e.useLocal /\ e.ollamaAvailable

\* the body of chat for call id on the engine e, lines 207-243: the message
\* is pushed, then the request to the provider is awaited; fallbackResponse
\* (line 235) is synchronous, its answer is pushed and returned at once
Attempt(e, id) ==
    LET pushed == Append(e.conversationHistory, [role |-> "user", content |-> id])
    IN  IF Provider(e) = "fallback"
        THEN /\ aiEngine' = [e EXCEPT !.conversationHistory =
                                Append(pushed, [role |-> "assistant", content |-> id])]
             /\ chats' = [chats EXCEPT ![id] = [pc |-> "returned", attempts |-> @.attempts + 1,
                                                provider |-> "fallback", error |-> FALSE]]
        ELSE /\ aiEngine' = [e EXCEPT !.conversationHistory = pushed]
             /\ chats' = [chats EXCEPT ![id] = [pc |-> "await", attempts |-> @.attempts + 1,
                                                provider |-> Provider(e), error |-> FALSE]]

\* AIEngine.initialize (lines 136-177) as the settings handler calls it
\* (main.js, lines 268-287): the Gemini client is created when there is a key,
\* the connection to Ollama is tested, the preferred provider is set
initialize ==
    /\ \E gemini \in BOOLEAN, ollama \in BOOLEAN, preferred \in {"gemini", "ollama"} :
         aiEngine' = [aiEngine EXCEPT !.geminiClient = @ \/ gemini,
                                      !.ollamaAvailable = ollama,
                                      !.preferredProvider = preferred]
    /\ UNCHANGED <<chats, response, parsed, payload>>
    /\ UNCHANGED <<rendererVars, execVars>>

\* the handler of 'chat' calls AIEngine.chat with the next message
chat(id) ==
    /\ chats[id].pc = "none"
    /\ \A d \in 1..(id - 1) : chats[d].pc # "none"
    /\ Attempt(aiEngine, id)
    /\ UNCHANGED <<response, parsed, payload>>
    /\ UNCHANGED <<rendererVars, execVars>>

\* the request to the provider settles, lines 238-264: the answer is pushed
\* and returned, or the catch block calls chat again or returns the error
chatSettles(id) ==
    /\ chats[id].pc = "await"
    /\ \/ /\ aiEngine' = [aiEngine EXCEPT !.conversationHistory =
                             Append(@, [role |-> "assistant", content |-> id])]
          /\ chats' = [chats EXCEPT ![id].pc = "returned"]
       \/ IF ShouldFallBack(aiEngine)
          THEN Attempt([aiEngine EXCEPT !.useLocal = TRUE], id)
          ELSE /\ chats' = [chats EXCEPT ![id].pc = "returned", ![id].error = TRUE]
               /\ UNCHANGED aiEngine
    /\ UNCHANGED <<response, parsed, payload>>
    /\ UNCHANGED <<rendererVars, execVars>>

NextChat ==
    \/ initialize
    \/ \E id \in 1..MaxChats : chat(id)
    \/ \E id \in 1..MaxChats : chatSettles(id)

SpecChat == Init /\ [][NextChat]_vars

\* ------------------------------------------- processes that never exit
\* An operation hands its command line to exec and is suspended until exec
\* settles.  exec settles when the process exits, or when the timeout given
\* in its options fires (part_002, lines 160-163 and 201-205); the other calls
\* of exec (lines 237, 259, 308, 362, 415, 487) pass no options.
DispatcherOps ==
    {"runSafeCommand", "runCustomCommand", "killProcess", "killProcessByName",
     "openApp", "emptyTrash", "clearCaches", "flushDNS"}

HasTimeout(op) == op \in {"runSafeCommand", "runCustomCommand"}

\* options.timeout handed to runCustomCommand, in ms; 0 stands for an
\* options object without timeout (the default {} of line 187)
TimeoutOptions == {0, 1000, 60000, 120000}

\* the timeout in the options of exec, in ms (lines 161 and 202); 0: none
ExecTimeout(op, timeout) ==
    IF op = "runSafeCommand" THEN 30000
    ELSE IF op = "runCustomCommand" THEN (IF timeout # 0 THEN timeout ELSE 60000)
    ELSE 0

spawn ==
    /\ calls < MaxSpawns
    /\ \E op \in DispatcherOps :
         \E timeout \in (IF op = "runCustomCommand" THEN TimeoutOptions ELSE {0}) :
            inflight' = inflight \cup
                {[id |-> calls + 1, op |-> op, timeout |-> ExecTimeout(op, timeout)]}
    /\ calls' = calls + 1
    /\ UNCHANGED <<platform, history, auditLog, lastCall>>
    /\ UNCHANGED <<rendererVars, auxVars>>

\* the process exits, with status 0 or not, and the operation returns
processExits(id) ==
    /\ \E k \in inflight :
        /\ k.id = id
        /\ inflight' = inflight \ {k}
    /\ UNCHANGED <<platform, history, auditLog, lastCall, calls>>
    /\ UNCHANGED <<rendererVars, auxVars>>

\* the timeout of exec fires: the process is killed and the operation
\* returns a failure
timeoutFires(id) ==
    /\ \E k \in inflight :
        /\ k.id = id
        /\ HasTimeout(k.op)
        /\ k.timeout > 0
        /\ inflight' = inflight \ {k}
    /\ UNCHANGED <<platform, history, auditLog, lastCall, calls>>
    /\ UNCHANGED <<rendererVars, auxVars>>

NextLive ==
    \/ spawn
    \/ \E id \in 1..MaxSpawns : processExits(id)
    \/ \E id \in 1..MaxSpawns : timeoutFires(id)

\* a timer that was set fires; a process need not ever exit
SpecLive ==
    /\ Init
    /\ [][NextLive]_vars
    /\ \A id \in 1..MaxSpawns : WF_vars(timeoutFires(id))

\* ------------------------------------------------- claims on the renderer

\* C2: an action that needs approval is dispatched only by the Confirm button
\* of the modal shown for that action: every step that starts
\* executeApprovedAction or executeSolution starts a new activation (the loop
\* does not continue into it), happens while the modal is shown, closes it, and
\* dispatches the action the modal was shown for, which is an action the
\* backend proposed and not an auto-executable one.
C2_ConfirmBeforeDispatch ==
    [][\A t \in Slots :
        (tasks'[t].pc \in {"approved", "solution"} /\
         tasks'[t] # [tasks[t] EXCEPT !.stale = tasks'[t].stale])
            => /\ tasks[t].pc = "idle"
               /\ modal.active
               /\ ~modal'.active
               /\ tasks'[t].act = modal.action
               /\ modal.action \in buttons
               /\ ~(modal.action \in autoExecTypes)]_vars

\* an approved action has been dispatched after its confirmation
C2_Witness ==
    \E t \in Slots : tasks[t].pc = "approved" /\ tasks[t].act = "restart-app"
                     /\ ~modal.active /\ modal.action = "restart-app"

\* C5: a chain that reaches the step limit has dispatched exactly
\* MAX_AGENTIC_STEPS commands when the fixed summary message is emitted.
C5_TenDispatchesAtSummary ==
    \A n \in terminatedWith : n = MAX_AGENTIC_STEPS

\* C6: the stepCount of a chain is between 0 and MAX_AGENTIC_STEPS, no
\* backend call is made at the step limit, and a chain that has stopped on
\* the summary message or on a backend error is no longer active.
C6_StepCountBounded ==
    \A t \in Slots :
        /\ tasks[t].step \in 0..MAX_AGENTIC_STEPS
        /\ tasks[t].pc = "chat" => tasks[t].step < MAX_AGENTIC_STEPS
        /\ tasks[t].term \in {"max-steps", "backend-error"} => tasks[t].pc = "idle"

\* a chain has stopped on the summary message
C6_Witness ==
    /\ terminatedWith # {}
    /\ \E t \in Slots : tasks[t].term = "max-steps"

\* C7: one response causes at most one command dispatch.
C7_OneDispatchPerResponse ==
    \A t \in Slots : tasks[t].respDisp <= 1

\* C8: the result of every completed dispatch of a loop action is sent to the
\* backend (or the step limit is reached): none is discarded.
C8_EveryResultInterpreted ==
    ~dropped

\* C9: at most one command dispatch of the session is in flight.
C9_OneDispatchInFlight ==
    Cardinality({t \in Slots : tasks[t].pc \in DispatchPcs}) <= 1

\* C10: at most one chat request of the session is in flight, and
\* isProcessing is true while one is.
C10_OneChatInFlight ==
    /\ Cardinality({t \in Slots : tasks[t].pc \in ChatPcs}) <= 1
    /\ (\E t \in Slots : tasks[t].pc \in ChatPcs) => isProcessing

\* ---------------------------------------------- claims on the main process

\* C1: every process spawn of an entry point is preceded, within the same
\* invocation, by a classification check that returned an allowing verdict.
C1_SpawnOnlyAfterAllowed ==
    lastCall.spawned # <<>> => lastCall.verdict = "allowed"

\* command texts that match a dangerous pattern: sudo and rm -rf; format;
\* shutdown; rm -rf in upper case with two spaces; a redirection into /dev/;
\* "format" inside "information"
MatchingCommands == {SudoRm, FormatC, ShutdownNow, UpperRm, ToDev, CatInformation}

C4_BlocklistTypeRefused ==
    [][(/\ lastCall'.op = "execute"
        /\ calls' = calls + 1
        /\ lastCall'.arg.type \in {"delete-system-file", "modify-registry",
                                   "format-drive", "disable-security"})
        => /\ lastCall'.ret.success = FALSE
           /\ lastCall'.ret.requiresApproval = TRUE
           /\ lastCall'.spawned = <<>>
           /\ auditLog' = auditLog]_vars

\* a blocklisted request carrying an approved flag and a pid was refused when
\* submitted a second time
C4_Witness ==
    /\ lastCall.op = "execute"
    /\ lastCall.arg.type = "format-drive"
    /\ lastCall.arg.approved
    /\ lastCall.arg.pid # <<>>
    /\ lastCall.ret.requiresApproval
    /\ lastCall.spawned = <<>>
    /\ calls = 2
    /\ auditLog = <<>>

\* -------------------------------------------- claims on the agentic chain

\* C11: an agentic chain that was running when the user sent a new top-level
\* message makes no further backend call and dispatches no further command.
C11_OldChainStopsAtNewMessage ==
    [][\A t \in Slots : tasks[t].stale =>
          /\ ~(tasks[t].pc \in {"cmd", "scanA"} /\ tasks'[t].pc = "chat")
          /\ ~(tasks[t].pc = "chat" /\ tasks'[t].pc \in {"cmd", "scanA"})]_vars

\* C12: the completion of a dispatched loop action, failed or not, in a
\* chain that is past its first step and below the step limit is followed by
\* a backend call that carries the result: the chain goes on.
C12_DispatchFailureFolded ==
    [][\A t \in Slots :
          ( /\ tasks[t].pc \in {"cmd", "scanA"}
            /\ tasks[t].step \in 1..(MAX_AGENTIC_STEPS - 1)
            /\ tasks'[t] # [tasks[t] EXCEPT !.stale = tasks'[t].stale] )
          => tasks'[t].pc = "chat"]_vars

\* C13: after a backend call of a chain failed, the activation that ran the
\* chain is over: it dispatches no command and makes no backend call, and no
\* new chain is started except by a fresh user message or click.
C13_BackendFailureTerminal ==
    \A t \in Slots :
        /\ tasks[t].term = "backend-error" => tasks[t].pc = "idle"
        /\ tasks[t].prev = "backend-error" =>
               tasks[t].pc \notin (DispatchPcs \cup ChatPcs)

\* C14: after a backend response without an action tag the chain has
\* concluded: the activation dispatches no command and makes no backend call.
C14_ConcludedDispatchesNothing ==
    \A t \in Slots :
        /\ tasks[t].term = "concluded" => tasks[t].pc = "idle"
        /\ tasks[t].prev = "concluded" =>
               tasks[t].pc \notin (DispatchPcs \cup ChatPcs)

\* --------------------------------------------- claims on the audit history

\* C15: every invocation of a CommandExecutor operation appends exactly
\* one record to the history (the history is far below its capacity here, so
\* nothing is evicted).
C15_OneRecordPerInvocation ==
    [][(calls' = calls + 1 /\ lastCall'.op \notin {"execute", "getAvailableCommands"}) =>
          /\ Len(history') = Len(history) + 1
          /\ SubSeq(history', 1, Len(history)) = history]_vars

\* C16: after n calls of logCommand the history holds min(n, HistoryLimit)
\* records; they are the most recent ones, oldest first.
C16_HistoryIsLastHundred ==
    LET n == calls
        m == IF n < HistoryLimit THEN n ELSE HistoryLimit
    IN  /\ Len(history) = m
        /\ \A i \in 1..m : history[i] = AuditCall(n - m + i)

\* after 150 appends the history holds records 51..150
C16_Witness ==
    /\ calls = 150
    /\ Len(history) = 100
    /\ history[1].command = 51
    /\ history[100].command = 150

\* C17: when invocations overlap and finish in any order, every finished
\* invocation has exactly one record in the history unless it was evicted:
\* the history holds min(finished, HistoryLimit) records, no two of them of
\* the same invocation, and none of an invocation that has not finished.
C17_OverlappingAppendsKept ==
    LET finished == (1..calls) \ inflight
        logged == {history[i].command : i \in 1..Len(history)}
    IN  /\ Len(history) <= HistoryLimit
        /\ Len(history) = (IF Cardinality(finished) < HistoryLimit
                           THEN Cardinality(finished) ELSE HistoryLimit)
        /\ Cardinality(logged) = Len(history)
        /\ logged \subseteq finished

\* two invocations overlapped and finished in the reverse order of their
\* start, and the oldest records were evicted
C17_Witness ==
    /\ Len(history) = HistoryLimit
    /\ history[1].command > 1
    /\ inflight = {}
    /\ \E i \in 1..(Len(history) - 1) : history[i].command > history[i + 1].command

\* ------------------------------------------ claims on the entry points

\* C18: runSafeCommand answers a key that is not in the catalog, and a
\* catalog key without a command line for the current platform, with a
\* failure result, and hands nothing to exec.
C18_UnsupportedSkillNotSpawned ==
    (lastCall.op = "runSafeCommand" /\
     (lastCall.arg \notin {"disk-usage", "memory-info"} \/
      platform \notin {"darwin", "win32", "linux"}))
    => /\ lastCall.spawned = <<>>
       /\ ~lastCall.ret.success
       /\ lastCall.ret.why =
             (IF lastCall.arg \notin {"disk-usage", "memory-info"}
              THEN "unknown-command" ELSE "not-supported")

\* disk-usage was requested on a platform that has no command line for it
C18_Witness ==
    /\ lastCall.op = "runSafeCommand"
    /\ lastCall.arg = "disk-usage"
    /\ platform = "freebsd"
    /\ lastCall.ret.why = "not-supported"

\* C19: no invocation of a CommandExecutor or SolutionEngine operation
\* raises: each returns a result to its caller.
C19_NothingThrown == ~lastCall.ret.threw

\* the safe set of names: letters, digits, the space character, underscore,
\* dot and hyphen
SafeSet ==
    {UpperCase[k] : k \in 1..26} \cup {LowerCase[k] : k \in 1..26}
    \cup {"0", "1", "2", "3", "4", "5", "6", "7", "8", "9", " ", "_", ".", "-"}

\* the other characters of the command templates of killProcessByName and
\* openApp (part_002, lines 252-254 and 297-303)
TemplatePunctuation == {"\"", "/", "|", ">"}

\* C20: the name that killProcessByName, openApp and restartApp put into
\* their command templates has characters of the safe set only, so every
\* character of the command lines they hand to exec is a character of the
\* template or of the safe set.
C20_SubstitutedNameIsSafe ==
    lastCall.op \in {"killProcessByName", "openApp", "restartApp"} =>
        \A j \in 1..Len(lastCall.spawned) :
            \A i \in 1..Len(lastCall.spawned[j]) :
                lastCall.spawned[j][i] \in SafeSet \cup TemplatePunctuation

\* the name that the replacement leaves of "Chrome;rm -rf ~": the semicolon
\* and the tilde are gone, the spaces and the hyphen are kept
ChromeStripped == <<"C", "h", "r", "o", "m", "e", "r", "m", " ", "-", "r", "f", " ">>

\* the command lines of killProcessByName (lines 252-254) for a stripped name
KillCommandFor(stripped) ==
    IF platform = "win32"
    THEN <<"t", "a", "s", "k", "k", "i", "l", "l", " ", "/", "F", " ", "/", "I", "M", " ", "\"">> \o stripped \o <<".", "e", "x", "e", "\"", " ", "2", ">", "n", "u", "l", " ", "|", "|", " ", "t", "a", "s", "k", "k", "i", "l", "l", " ", "/", "F", " ", "/", "I", "M", " ", "\"">> \o stripped \o <<"\"", " ", "2", ">", "n", "u", "l">>
    ELSE <<"p", "k", "i", "l", "l", " ", "-", "x", " ", "\"">> \o stripped \o <<"\"", " ", "|", "|", " ", "p", "k", "i", "l", "l", " ", "\"">> \o stripped \o <<"\"">>

\* C21 (as the code has it): killProcessByName("Chrome;rm -rf ~") is not
\* refused and hands to exec the template filled with "Chromerm -rf ";
\* every name that is a string leads to a dispatch.
C21_StripsAndDispatches ==
    lastCall.op = "killProcessByName" =>
        /\ lastCall.arg # Undefined =>
              (~lastCall.ret.threw /\ Len(lastCall.spawned) = 1)
        /\ lastCall.arg = ChromeRm =>
              lastCall.spawned = <<KillCommandFor(ChromeStripped)>>

\* killProcessByName("Chrome;rm -rf ~") has run and reported success
C21_Witness ==
    /\ lastCall.op = "killProcessByName"
    /\ lastCall.arg = ChromeRm
    /\ lastCall.ret.success
    /\ lastCall.ret.why = "terminated"

\* C21 (as stated): the argument put into the template is "Chromerm-rf"
C21_StrippedOfSpaces ==
    (lastCall.op = "killProcessByName" /\ lastCall.arg = ChromeRm) =>
        lastCall.spawned = <<KillCommandFor(<<"C", "h", "r", "o", "m", "e", "r", "m", "-", "r", "f">>)>>

\* ---------------------------------------------- claims on parseAIResponse

\* the value of the type key of a well-formed tag piece, <<>> without one
TypeValueOf(piece) ==
    IF piece = TypedTag THEN <<"a">>
    ELSE IF piece = TwoKeyTag THEN <<"b">>
    ELSE IF piece = BracketTag THEN <<"x", "]", "y">>
    ELSE IF piece \in {EmptyValueTag, QuotedTag} THEN <<"a">>
    ELSE <<>>

WellFormed(pieces) == \A k \in 1..Len(pieces) : pieces[k] \notin {OpenedTag, NestedTag}

\* the type values of the tag pieces that have a type key, in order
RECURSIVE ExpectedTypes(_)
ExpectedTypes(pieces) ==
    IF pieces = <<>> THEN <<>>
    ELSE (IF TypeValueOf(Head(pieces)) # <<>> THEN <<TypeValueOf(Head(pieces))>> ELSE <<>>)
         \o ExpectedTypes(Tail(pieces))

\* the value of the type property of a parsed action
ParsedType(action) ==
    (CHOOSE k \in 1..Len(action) : action[k].key = <<"t", "y", "p", "e">>)

\* C22: for a text of prose and well-formed tags, parseAIResponse returns one
\* action for every tag that has a type key, in the order of the tags, and a
\* displayText in which none of the tags is left.
C22_OneActionPerTypedTag ==
    (parsed.done /\ WellFormed(response)) =>
        /\ Len(parsed.actions) = Len(ExpectedTypes(response))
        /\ \A k \in 1..Len(parsed.actions) :
              parsed.actions[k][ParsedType(parsed.actions[k])].value = ExpectedTypes(response)[k]
        /\ \A i \in 1..Len(parsed.text) : ~StartsAt(parsed.text, i, ActionOpen)

\* the tag pieces that actionBlockRegex matches whole
WholeTags == {TypedTag, TwoKeyTag, UntypedTag}

\* C23: displayText is the input with the matched tags deleted and every
\* other character kept, white space at the ends included; an input without
\* a tag comes back unchanged, with no action.
C23_OnlyTagsRemoved ==
    parsed.done =>
        /\ (\A k \in 1..Len(response) : response[k] \in {Prose, Blank, OpenedTag}) =>
              (parsed.text = Flatten(response) /\ parsed.actions = <<>>)
        /\ (\A k \in 1..Len(response) : response[k] \in {Prose, Blank} \cup WholeTags) =>
              parsed.text = Flatten(SelectSeq(response, LAMBDA p : p \notin WholeTags))

\* the actions that the pieces of a response yield when each is parsed alone
RECURSIVE ActionsPieceByPiece(_)
ActionsPieceByPiece(pieces) ==
    IF pieces = <<>> THEN <<>>
    ELSE parseAIResponse(Head(pieces)).actions \o ActionsPieceByPiece(Tail(pieces))

\* C24: a call of parseAIResponse changes no state of the application; a
\* further call on the same text returns the same text and actions; and the
\* actions of a tag do not depend on the tags parsed before it.
C24_ParseIsPure ==
    [][(parsed'.done /\ response' = response) =>
          /\ UNCHANGED <<rendererVars, execVars, payload, engineVars>>
          /\ parsed.done => parsed' = parsed
          /\ WellFormed(response) => parsed'.actions = ActionsPieceByPiece(response)]_vars

\* a text with two typed tags and prose has been parsed
C24_Witness ==
    /\ parsed.done
    /\ response = <<TypedTag, Prose, TwoKeyTag>>
    /\ Len(parsed.actions) = 2
    /\ parsed.text = Prose

\* ----------------------------------------- claims on the result messages

\* C25: the text embedded in a [SYSTEM_RESULT: ...] message, output or
\* error, is at most 2000 characters long.
C25_PayloadBounded == payload.length <= 2000

\* -------------------------------------------- claims on spawned processes

\* C26: every operation that has spawned a process returns in the end, also
\* when the process never exits.
C26_EveryOperationReturns ==
    \A id \in 1..MaxSpawns :
        (\E k \in inflight : k.id = id) ~> ~(\E k \in inflight : k.id = id)

\* ------------------------------------------- claims on the classification

\* C27: whatever calls came before, runCustomCommand blocks exactly the
\* command texts that match a dangerous pattern and SolutionEngine.execute
\* refuses exactly the blocklisted types; a refusal changes neither the
\* history nor the audit log, so nothing is remembered for the next call.
C27_VerdictDependsOnInputOnly ==
    [][calls' = calls + 1 =>
          /\ lastCall'.op = "runCustomCommand" =>
                (lastCall'.verdict = "blocked" <=> lastCall'.arg \in MatchingCommands)
          /\ (lastCall'.op = "execute" /\ lastCall'.arg.type # "") =>
                (lastCall'.verdict = "blocked" <=>
                    lastCall'.arg.type \in {"delete-system-file", "modify-registry",
                                            "format-drive", "disable-security"})
          /\ lastCall'.verdict = "blocked" =>
                (history' = history /\ auditLog' = auditLog)]_vars

\* a blocklisted request was refused right after an approved request ran
C27_Witness ==
    /\ calls = 2
    /\ lastCall.op = "execute"
    /\ lastCall.arg.type = "format-drive"
    /\ ~lastCall.arg.approved
    /\ lastCall.verdict = "blocked"
    /\ Len(auditLog) = 1
    /\ auditLog[1].details.approved

\* C28: the result of a request whose type is blocklisted is a refusal that
\* does not tell the caller that approval would allow the action.
C28_BlockedIsNotNeedsApproval ==
    (lastCall.op = "execute" /\
     lastCall.arg.type \in {"delete-system-file", "modify-registry",
                            "format-drive", "disable-security"})
    => (~lastCall.ret.success /\ ~lastCall.ret.requiresApproval)

\* ------------------------------------------------- claims on the catalog

C30_EverySkillAdvertised ==
    lastCall.op = "getAvailableCommands" =>
        \A k \in 1..Len(lastCall.ret.value) :
            lastCall.ret.value[k].key \in AdvertisedQueryTypes

\* ---------------------------------------- claims on termination of the loop

\* the places at which an agentic chain is suspended
ChainPcs == {"cmd", "scanA", "chat"}

\* C31 (bound): a backend call of a chain is its stepCount + 1st, and
\* stepCount is below MAX_AGENTIC_STEPS when it is made.
C31_AtMostTenBackendCalls ==
    \A t \in Slots : tasks[t].pc = "chat" => tasks[t].step + 1 <= MAX_AGENTIC_STEPS

\* C31 (termination): when every call comes back, an activation that runs a
\* chain is eventually over.
C31_ChainStops ==
    \A t \in Slots : (tasks[t].pc \in ChainPcs) ~> (tasks[t].pc = "idle")

\* C31: every chain makes at most MAX_AGENTIC_STEPS backend calls, stops, and
\* when it stops it has concluded, emitted the step-limit summary or stopped
\* on a backend error.
C31_ChainEndsInAStopState ==
    /\ []C31_AtMostTenBackendCalls
    /\ C31_ChainStops
    /\ [][\A t \in Slots :
            ( /\ tasks[t].pc \in ChainPcs
              /\ \/ tasks'[t].pc = "idle"
                 \/ tasks'[t].respDisp > tasks[t].respDisp )
            => (IF tasks'[t].pc = "idle" THEN tasks'[t].term ELSE tasks'[t].prev)
                  \in {"concluded", "max-steps", "backend-error"}]_vars

\* ------------------------------------- claims on the Solution Engine's log

\* C32: the audit log of the Solution Engine never holds more than 100
\* records.
C32_AuditLogBounded ==
    Len(auditLog) <= 100

\* --------------------------------------- claims on the bound parameters

\* the key="value" pairs written in a tag piece, in order; the value of a
\* pair is the text from its opening quote to the next double quote
PairsOf(piece) ==
    LET pair(k, v) == [key |-> k, value |-> v]
        type == <<"t", "y", "p", "e">>
    IN  IF piece = TypedTag THEN <<pair(type, <<"a">>)>>
        ELSE IF piece = TwoKeyTag THEN <<pair(type, <<"b">>), pair(<<"n">>, <<"1">>)>>
        ELSE IF piece = QuotedTag THEN <<pair(type, <<"a">>), pair(<<"n">>, <<"1">>)>>
        ELSE IF piece = EmptyValueTag THEN <<pair(type, <<"a">>), pair(<<"k">>, <<>>)>>
        ELSE <<>>

RECURSIVE PairsPieceByPiece(_)
PairsPieceByPiece(pieces) ==
    IF pieces = <<>> THEN <<>>
    ELSE (IF PairsOf(Head(pieces)) # <<>> THEN <<PairsOf(Head(pieces))>> ELSE <<>>)
         \o PairsPieceByPiece(Tail(pieces))

\* C33: the action of a tag binds every key="value" pair of the tag, keys that
\* no skill declares included, each key to the text between its opening quote
\* and the next double quote.
C33_EveryPairBound ==
    ( /\ parsed.done
      /\ \A k \in 1..Len(response) :
            response[k] \in {Prose, Blank, TypedTag, TwoKeyTag, QuotedTag, EmptyValueTag} )
    => parsed.actions = PairsPieceByPiece(response)

\* C36: no action tag is left in the displayText: parsing it again yields no
\* action and returns it unchanged.
C36_NoTagLeftInDisplayText ==
    parsed.done =>
        /\ parseAIResponse(parsed.text).actions = <<>>
        /\ parseAIResponse(parsed.text).text = parsed.text

\* ------------------------------------------------ claims on the timeouts

\* C34: the timeout given to the process of a custom command is at most
\* 60000 ms, that of a catalog query command exactly 30000 ms.
C34_TimeoutAtMostSixtySeconds ==
    \A k \in inflight :
        /\ k.op = "runCustomCommand" => k.timeout <= 60000
        /\ k.op = "runSafeCommand" => k.timeout = 30000

\* ------------------------------------------- claims on the isProcessing flag

\* C35: when no activation is suspended (no backend call, no dispatch of a
\* command or of a utility in flight), isProcessing is false, so the next
\* message of the user is accepted.
C35_FlagNeverStuck ==
    (\A t \in Slots : tasks[t].pc = "idle") => ~isProcessing

\* the session is at rest after a result was dropped by the re-entrancy guard
\* and after a chain stopped at the step limit
C35_Witness ==
    /\ \A t \in Slots : tasks[t].pc = "idle"
    /\ dropped
    /\ \E t \in Slots : tasks[t].term = "max-steps"
    /\ ~isProcessing

\* ------------------------------------------------ claims on AIEngine.chat

\* the entries of conversationHistory that call id pushed with the role
EntriesOf(id, role) ==
    {k \in 1..Len(aiEngine.conversationHistory) :
        aiEngine.conversationHistory[k] = [role |-> role, content |-> id]}

\* C37: a call of chat has pushed its message once; when it has returned it
\* has pushed one assistant entry after the message if the result carries no
\* error, and none if it does.
C37_OneEntryPerMessage ==
    \A id \in 1..MaxChats :
        /\ chats[id].pc # "none" => Cardinality(EntriesOf(id, "user")) = 1
        /\ chats[id].pc = "returned" =>
              /\ Cardinality(EntriesOf(id, "assistant")) = (IF chats[id].error THEN 0 ELSE 1)
              /\ \A u \in EntriesOf(id, "user"), a \in EntriesOf(id, "assistant") : u < a

\* C38: the body of chat runs at most twice for a call; it runs a second time
\* only from the catch block of the first, when useLocal was false and the
\* local provider available, and with useLocal set; a failure of the second
\* run returns the error result.
C38_AtMostTwoAttempts ==
    /\ [](\A id \in 1..MaxChats : chats[id].attempts <= 2)
    /\ [][\A id \in 1..MaxChats :
            /\ (chats[id].pc = "await" /\ chats'[id].attempts = chats[id].attempts + 1) =>
                  /\ chats[id].attempts = 1
                  /\ ~aiEngine.useLocal /\ aiEngine.ollamaAvailable
                  /\ aiEngine'.useLocal
            /\ (chats[id].attempts = 2 /\ chats[id].pc = "await" /\ chats'[id].pc = "returned"
                  /\ aiEngine'.conversationHistory = aiEngine.conversationHistory) =>
                  chats'[id].error]_vars

\* both runs of the body failed and the call returned the error result
C38_Witness ==
    \E id \in 1..MaxChats :
        /\ chats[id].pc = "returned"
        /\ chats[id].attempts = 2
        /\ chats[id].error
        /\ aiEngine.useLocal

====
